---- MODULE Spec2Model ----
(***************************************************************************)
(* Model of http_server.py: a sequential, blocking HTTP server that serves *)
(* files and directory listings from a document root.                      *)
(*                                                                         *)
(* Text (str) and bytes are sequences of one-character strings.  A byte    *)
(* outside ASCII is written "xHH"; the one non-ASCII character used is     *)
(* "U+E9", whose UTF-8 encoding is the two bytes "xC3" "xA9".              *)
(***************************************************************************)
EXTENDS Integers, Sequences, FiniteSets, TLC

VARIABLES pc, sock, nconn, open, request, data, nrecv, response, wire,
          nsent, fault, earlier

vars == <<pc, sock, nconn, open, request, data, nrecv, response, wire,
          nsent, fault, earlier>>

(* ------------------------------ bounds --------------------------------- *)

\* connections the clients make during one run of the server
MaxConns == 2

\* non-empty chunks a client sends on one connection before it stops sending
MaxChunks == 2

(* --------------------------- string helpers ---------------------------- *)

CR == "\r"
LF == "\n"
CRLF == <<CR, LF>>
Terminator == <<CR, LF, CR, LF>>

\* `sub in s` of Python
Contains(s, sub) ==
  \E i \in 0..(Len(s) - Len(sub)) : SubSeq(s, i + 1, i + Len(sub)) = sub

\* s[1:] of Python
DropFirst(s) == IF Len(s) <= 1 THEN <<>> ELSE SubSeq(s, 2, Len(s))

\* str.split(c) of Python for a one-character separator: empty fields are kept
RECURSIVE SplitFrom(_, _, _, _)
SplitFrom(s, c, i, cur) ==
  IF i > Len(s) THEN <<cur>>
  ELSE IF s[i] = c THEN <<cur>> \o SplitFrom(s, c, i + 1, <<>>)
  ELSE SplitFrom(s, c, i + 1, Append(cur, s[i]))

Split(s, c) == SplitFrom(s, c, 1, <<>>)

\* sep.join(parts) of Python
RECURSIVE Join(_, _)
Join(sep, parts) ==
  IF parts = <<>> THEN <<>>
  ELSE IF Len(parts) = 1 THEN parts[1]
  ELSE parts[1] \o sep \o Join(sep, Tail(parts))

\* result of a call that either returns a value or raises an exception
Return(v) == [raised |-> FALSE, exc |-> "", value |-> v]
Raise(e) == [raised |-> TRUE, exc |-> e, value |-> <<>>]

(* ------------------------------ UTF-8 ---------------------------------- *)

NonAsciiBytes == {"xC3", "xA9", "xFF", "x89"}

\* bytes.decode('utf8'): strict, so a lone lead byte, a lone continuation
\* byte or an invalid byte raises UnicodeDecodeError
RECURSIVE DecodeFrom(_, _, _)
DecodeFrom(b, i, acc) ==
  IF i > Len(b) THEN Return(acc)
  ELSE IF b[i] \notin NonAsciiBytes THEN DecodeFrom(b, i + 1, Append(acc, b[i]))
  ELSE IF b[i] = "xC3" /\ i < Len(b) /\ b[i + 1] = "xA9"
       THEN DecodeFrom(b, i + 2, Append(acc, "U+E9"))
  ELSE Raise("UnicodeDecodeError")

decode(b) == DecodeFrom(b, 1, <<>>)

\* str.encode(): UTF-8
RECURSIVE encode(_)
encode(s) ==
  IF s = <<>> THEN <<>>
  ELSE (IF Head(s) = "U+E9" THEN <<"xC3", "xA9">> ELSE <<Head(s)>>)
       \o encode(Tail(s))

(* --------------------------- the filesystem ---------------------------- *)

\* directory of http_server.py
CurrentDir == <<"/", "s", "r", "v">>

WebrootName == <<"w", "e", "b", "r", "o", "o", "t">>

Name_srv == <<"s", "r", "v">>
Name_a_html == <<"a", ".", "h", "t", "m", "l">>
Name_b_png == <<"b", ".", "p", "n", "g">>
Name_raw == <<"r", "a", "w">>
Name_d == <<"d">>
Name_c_txt == <<"c", ".", "t", "x", "t">>
Name_e_txt == <<"U+E9", ".", "t", "x", "t">>
Name_e == <<"e">>
Name_server_py == <<"h", ".", "p", "y">>

Webroot == <<Name_srv, WebrootName>>

\* The files and directories of the machine, by their canonical path (the
\* sequence of names from the filesystem root).  Directory entries are in
\* the order the filesystem enumerates them.
FileSystem ==
  { [path |-> <<>>, kind |-> "dir", entries |-> <<Name_srv>>, content |-> <<>>],
    [path |-> <<Name_srv>>, kind |-> "dir",
     entries |-> <<WebrootName, Name_server_py>>, content |-> <<>>],
    [path |-> <<Name_srv, Name_server_py>>, kind |-> "file",
     entries |-> <<>>, content |-> <<"i", "m", "p", "o", "r", "t">>],
    [path |-> Webroot, kind |-> "dir",
     entries |-> <<Name_b_png, Name_d, Name_a_html, Name_raw, Name_e>>,
     content |-> <<>>],
    [path |-> Append(Webroot, Name_a_html), kind |-> "file",
     entries |-> <<>>, content |-> <<"<", "p", ">", "U", "\r", "\n">>],
    [path |-> Append(Webroot, Name_b_png), kind |-> "file",
     entries |-> <<>>, content |-> <<"x89", "P", "N", "G", "xFF">>],
    [path |-> Append(Webroot, Name_raw), kind |-> "file",
     entries |-> <<>>, content |-> <<"r", "a", "w">>],
    [path |-> Append(Webroot, Name_d), kind |-> "dir",
     entries |-> <<Name_e_txt, Name_c_txt>>, content |-> <<>>],
    [path |-> Append(Webroot, Name_e), kind |-> "dir",
     entries |-> <<>>, content |-> <<>>],
    [path |-> Webroot \o <<Name_d, Name_c_txt>>, kind |-> "file",
     entries |-> <<>>, content |-> <<"h", "i">>],
    [path |-> Webroot \o <<Name_d, Name_e_txt>>, kind |-> "file",
     entries |-> <<>>, content |-> <<>>] }

ExistsAt(p) == \E f \in FileSystem : f.path = p
EntryAt(p) == CHOOSE f \in FileSystem : f.path = p
IsDirAt(p) == ExistsAt(p) /\ EntryAt(p).kind = "dir"

\* Path resolution of the operating system for an absolute path: every
\* component is looked up in a directory; "" and "." stay, ".." goes up.
RECURSIVE Walk(_, _)
Walk(comps, cur) ==
  IF comps = <<>> THEN Return(cur)
  ELSE IF ~IsDirAt(cur) THEN Raise("ENOTDIR")
  ELSE LET c == Head(comps) IN
       IF c = <<>> \/ c = <<".">> THEN Walk(Tail(comps), cur)
       ELSE IF c = <<".", ".">>
            THEN Walk(Tail(comps), IF cur = <<>> THEN cur
                                   ELSE SubSeq(cur, 1, Len(cur) - 1))
       ELSE IF ExistsAt(Append(cur, c)) THEN Walk(Tail(comps), Append(cur, c))
       ELSE Raise("ENOENT")

Resolve(query) == Walk(Split(query, "/"), <<>>)

\* os.path.exists, os.path.isdir, os.listdir, open(query, "rb").read()
exists(query) == query # <<>> /\ ~Resolve(query).raised
isdir(query) == exists(query) /\ EntryAt(Resolve(query).value).kind = "dir"
listdir(query) == EntryAt(Resolve(query).value).entries
read(query) == EntryAt(Resolve(query).value).content

\* os.path.join(a, b): a component that starts with "/" discards what is
\* before it
PathJoin2(a, b) ==
  IF b # <<>> /\ b[1] = "/" THEN b
  ELSE IF a = <<>> \/ a[Len(a)] = "/" THEN a \o b
  ELSE a \o <<"/">> \o b

PathJoin(a, b, c) == PathJoin2(PathJoin2(a, b), c)

(* --------------------------- media types ------------------------------- *)

None == <<"None">>

\* mimetypes.types_map, restricted to the extensions used here
TypesMap(ext) ==
  IF ext = <<".", "h", "t", "m", "l">> THEN <<"t", "e", "x", "t", "/", "h", "t", "m", "l">>
  ELSE IF ext = <<".", "p", "n", "g">> THEN <<"i", "m", "a", "g", "e", "/", "p", "n", "g">>
  ELSE IF ext = <<".", "t", "x", "t">> THEN <<"t", "e", "x", "t", "/", "p", "l", "a", "i", "n">>
  ELSE IF ext = <<".", "p", "y">> THEN <<"t", "e", "x", "t", "/", "x", "-", "p", "y", "t", "h", "o", "n">>
  ELSE None

\* posixpath.splitext(p)[1]: from the last dot of the last component, unless
\* only dots come before it in that component
SplitExt(p) ==
  LET comps == Split(p, "/")
      base == comps[Len(comps)]
      dots == {i \in 1..Len(base) : base[i] = "."}
  IN IF dots = {} THEN <<>>
     ELSE LET last == CHOOSE i \in dots : \A j \in dots : j <= i
          IN IF \A j \in 1..(last - 1) : base[j] = "." THEN <<>>
             ELSE SubSeq(base, last, Len(base))

\* mimetypes.guess_type(query)[0]
guess_type(query) == TypesMap(SplitExt(query))

(* --------------------------- http_server.py ---------------------------- *)

Status200 == <<"H", "T", "T", "P", "/", "1", ".", "1", " ", "2", "0", "0", " ", "O", "K">>
ContentTypeKey == <<"C", "o", "n", "t", "e", "n", "t", "-", "T", "y", "p", "e", ":", " ">>
TextPlain == <<"t", "e", "x", "t", "/", "p", "l", "a", "i", "n">>
POST == <<"P", "O", "S", "T">>

\* response_ok without the empty element that makes the blank line
response_ok_noblank(body, mimetype) ==
  Join(CRLF, <<Status200, ContentTypeKey \o mimetype, body>>)

\* response_ok as its docstring shows it, with a line end after the body
response_ok_trailing(body, mimetype) ==
  Join(CRLF, <<Status200, ContentTypeKey \o mimetype, <<>>, body, <<>>>>)

response_ok(body, mimetype) ==
  Join(CRLF, <<Status200, ContentTypeKey \o mimetype, <<>>, body>>)

response_method_not_allowed ==
  <<"H", "T", "T", "P", "/", "1", ".", "1", " ", "4", "0", "5", " ", "M", "e", "t", "h", "o", "d", " ", "N", "o", "t", " ", "A", "l", "l", "o", "w", "e", "d", "\r", "\n">>

response_not_found ==
  <<"H", "T", "T", "P", "/", "1", ".", "1", " ", "4", "0", "4", " ", "N", "o", "t", " ", "F", "o", "u", "n", "d", "\r", "\n">>

\* parse_request as its docstring words it: every method but GET is refused
parse_request_getonly(req) ==
  LET requested == Split(req, " ")
      request_method == requested[1]
  IN IF request_method # <<"G", "E", "T">> THEN Raise("NotImplementedError")
     ELSE IF Len(requested) < 2 THEN Raise("IndexError")
     ELSE Return(requested[2])

parse_request(req) ==
  LET requested == Split(req, " ")
      request_method == requested[1]
  IN IF request_method = POST THEN Raise("NotImplementedError")
     ELSE IF Len(requested) < 2 THEN Raise("IndexError")
     ELSE Return(requested[2])

\* response_path falling back to a generic media type
response_path_octet(path) ==
  LET query == PathJoin(CurrentDir, WebrootName, DropFirst(path))
  IN IF ~exists(query) THEN Raise("NameError")
     ELSE IF isdir(query)
          THEN Return(<<encode(Join(CRLF, listdir(query))), TextPlain>>)
     ELSE IF guess_type(query) = None
          THEN Return(<<read(query),
                        <<"a", "p", "p", "l", "i", "c", "a", "t", "i", "o", "n", "/", "o", "c", "t", "e", "t", "-", "s", "t", "r", "e", "a", "m">>>>)
     ELSE Return(<<read(query), encode(guess_type(query))>>)

\* response_path with the listing of its docstring, joined with ", "
response_path_commas(path) ==
  LET query == PathJoin(CurrentDir, WebrootName, DropFirst(path))
  IN IF ~exists(query) THEN Raise("NameError")
     ELSE IF isdir(query)
          THEN Return(<<encode(Join(<<",", " ">>, listdir(query))), TextPlain>>)
     ELSE IF guess_type(query) = None THEN Raise("AttributeError")
     ELSE Return(<<read(query), encode(guess_type(query))>>)

\* the value returned is <<content, mime_type>>
response_path(path) ==
  LET query == PathJoin(CurrentDir, WebrootName, DropFirst(path))
  IN IF ~exists(query) THEN Raise("NameError")
     ELSE IF isdir(query)
          THEN Return(<<encode(Join(CRLF, listdir(query))), TextPlain>>)
     ELSE IF guess_type(query) = None THEN Raise("AttributeError")
     ELSE Return(<<read(query), encode(guess_type(query))>>)

\* handle_request with the two except clauses swapped
handle_request_swapped(req) ==
  LET parsed == parse_request(req)
  IN IF parsed.raised THEN Raise(parsed.exc)
     ELSE LET found == response_path(parsed.value)
          IN IF ~found.raised
                THEN Return(response_ok(found.value[1], found.value[2]))
             ELSE IF found.exc = "NameError"
                  THEN Return(response_method_not_allowed)
             ELSE IF found.exc = "NotImplementedError"
                  THEN Return(response_not_found)
             ELSE Raise(found.exc)

\* parse_request is called before the try statement, so what it raises
\* leaves handle_request; the except clauses see only what response_path
\* and response_ok raise
handle_request(req) ==
  LET parsed == parse_request(req)
  IN IF parsed.raised THEN Raise(parsed.exc)
     ELSE LET found == response_path(parsed.value)
          IN IF ~found.raised
                THEN Return(response_ok(found.value[1], found.value[2]))
             ELSE IF found.exc = "NameError" THEN Return(response_not_found)
             ELSE IF found.exc = "NotImplementedError"
                  THEN Return(response_method_not_allowed)
             ELSE Raise(found.exc)

(* ------------------- what clients put on the wire ---------------------- *)

Methods ==
  { <<"G", "E", "T">>, <<"P", "O", "S", "T">>, <<"P", "U", "T">>,
    <<"p", "o", "s", "t">>, <<"G", "?", "T">> }

Paths ==
  { <<"/">>,
    <<"/", "a", ".", "h", "t", "m", "l">>,
    <<"/", "b", ".", "p", "n", "g">>,
    <<"/", "r", "a", "w">>,
    <<"/", "d">>,
    <<"/", "e">>,
    <<"/", "d", "/", "xC3", "xA9", ".", "t", "x", "t">>,
    <<"/", "m", "i", "s", "s", "i", "n", "g", ".", "t", "x", "t">>,
    <<"/", "d", "/", ".", ".", "/", "a", ".", "h", "t", "m", "l">>,
    <<"/", "/", "s", "r", "v", "/", "h", ".", "p", "y">>,
    <<"/", "a", ".", "h", "t", "m", "l", "/">>,
    <<>> }

Version == <<" ", "H", "T", "T", "P", "/", "1", ".", "1", "\r", "\n">>

\* a whole request in one chunk: request line and the blank line
FullRequests == { m \o <<" ">> \o p \o Version \o CRLF : m \in Methods, p \in Paths }

\* pieces of requests, for requests that arrive in several chunks, that are
\* cut short, or that are not UTF-8
Fragments ==
  { <<"G", "E", "T">>,
    <<"G", "E", "T", " ", "/", "r", "a", "w">>,
    <<"G", "E", "T", " ", "/", "m", "i", "s", "s", "i", "n", "g", ".", "t", "x", "t">>,
    <<"G", "E", "T", " ", "/", "a", ".", "h", "t", "m", "l", " ", "H", "T", "T", "P", "/", "1", ".", "1", "\r", "\n">>,
    <<"P", "O", "S", "T", " ", "/", "a", ".", "h", "t", "m", "l", " ", "H", "T", "T", "P", "/", "1", ".", "1", "\r", "\n">>,
    <<"H", "o", "s", "t", ":", " ", "x", "\r", "\n", "\r", "\n">>,
    <<"\r", "\n">>,
    <<"xC3">>, <<"xFF">> }

\* what one conn.recv(1024) can return; <<>> is the zero-length read
Chunks == {<<>>} \cup FullRequests \cup Fragments

\* what the n+1st recv of a connection can return: a whole request comes as
\* the first chunk of its connection
ChunksAt(n) == IF n = 0 THEN Chunks ELSE {<<>>} \cup Fragments

(* ------------------------------ server() ------------------------------- *)

\* pc is the statement the server is at:
\*   "accept"   blocked in sock.accept()
\*   "recv"     in the read loop, blocked in conn.recv(1024)
\*   "handle"   after the read loop, at `if len(request) > 0`
\*   "send"     handle_request returned, at conn.sendall(response)
\*   "except"   in the inner bare except clause
\*   "finally"  in the inner finally clause, before conn.close()
\*   "stopped"  server() returned from `except KeyboardInterrupt`
\*   "crashed"  server() ended in the outer bare except clause
\* Interrupts are delivered at the blocking calls and at the statements of
\* the inner try body.
\* earlier is not state of the program: it remembers the request and the
\* bytes of the last connection that was closed after a whole response, and
\* only FinallyRecord writes it.

Init ==
  /\ pc = "accept"
  /\ sock = "listening"
  /\ nconn = 0
  /\ open = {}
  /\ request = <<>>
  /\ data = <<>>
  /\ nrecv = 0
  /\ response = <<>>
  /\ wire = <<>>
  /\ nsent = 0
  /\ fault = ""
  /\ earlier = [served |-> FALSE, request |-> <<>>, wire |-> <<>>]

\* conn, addr = sock.accept(); request = ''
Accept ==
  /\ pc = "accept"
  /\ nconn < MaxConns
  /\ nconn' = nconn + 1
  /\ open' = open \cup {nconn + 1}
  /\ request' = <<>>
  /\ data' = <<>>
  /\ nrecv' = 0
  /\ wire' = <<>>
  /\ nsent' = 0
  /\ fault' = ""
  /\ pc' = "recv"
  /\ UNCHANGED <<sock, response, earlier>>

\* KeyboardInterrupt while blocked in accept: except KeyboardInterrupt
AcceptInterrupt ==
  /\ pc = "accept"
  /\ sock' = "closed"
  /\ pc' = "stopped"
  /\ UNCHANGED <<nconn, open, request, data, nrecv, response, wire, nsent, fault, earlier>>

\* sock.accept() raises something else: the outer bare except
AcceptError ==
  /\ pc = "accept"
  /\ pc' = "crashed"
  /\ UNCHANGED <<sock, nconn, open, request, data, nrecv, response, wire, nsent, fault, earlier>>

\* the read loop testing the chunk just read instead of the accumulated text
Recv_chunkonly(chunk) ==
  /\ pc = "recv"
  /\ chunk \in ChunksAt(nrecv)
  /\ chunk = <<>> \/ nrecv < MaxChunks
  /\ data' = chunk
  /\ nrecv' = nrecv + 1
  /\ LET text == decode(chunk) IN
       IF text.raised
       THEN /\ fault' = text.exc
            /\ pc' = "except"
            /\ UNCHANGED request
       ELSE /\ request' = request \o text.value
            /\ pc' = IF Contains(text.value, Terminator) \/ Len(chunk) = 0
                     THEN "handle" ELSE "recv"
            /\ UNCHANGED fault
  /\ UNCHANGED <<sock, nconn, open, response, wire, nsent, earlier>>

\* one pass of the read loop: recv, decode, accumulate, test
Recv(chunk) ==
  /\ pc = "recv"
  /\ chunk \in ChunksAt(nrecv)
  /\ chunk = <<>> \/ nrecv < MaxChunks
  /\ data' = chunk
  /\ nrecv' = nrecv + 1
  /\ LET text == decode(chunk) IN
       IF text.raised
       THEN /\ fault' = text.exc
            /\ pc' = "except"
            /\ UNCHANGED request
       ELSE /\ request' = request \o text.value
            /\ pc' = IF Contains(request', Terminator) \/ Len(chunk) = 0
                     THEN "handle" ELSE "recv"
            /\ UNCHANGED fault
  /\ UNCHANGED <<sock, nconn, open, response, wire, nsent, earlier>>

\* conn.recv raises (connection reset)
RecvError ==
  /\ pc = "recv"
  /\ fault' = "OSError"
  /\ pc' = "except"
  /\ UNCHANGED <<sock, nconn, open, request, data, nrecv, response, wire, nsent, earlier>>

\* a request is handled only if its header terminator arrived
HandleRequest_needsterminator ==
  /\ pc = "handle"
  /\ IF Len(request) > 0 /\ Contains(request, Terminator)
     THEN LET r == handle_request(request) IN
            IF r.raised
            THEN /\ fault' = r.exc
                 /\ pc' = "except"
                 /\ UNCHANGED response
            ELSE /\ response' = r.value
                 /\ pc' = "send"
                 /\ UNCHANGED fault
     ELSE /\ pc' = "finally"
          /\ UNCHANGED <<fault, response>>
  /\ UNCHANGED <<sock, nconn, open, request, data, nrecv, wire, nsent, earlier>>

\* the response kept in a buffer that outlives the connection and grows
HandleRequest_accumulate ==
  /\ pc = "handle"
  /\ IF Len(request) > 0
     THEN LET r == handle_request(request) IN
            IF r.raised
            THEN /\ fault' = r.exc
                 /\ pc' = "except"
                 /\ UNCHANGED response
            ELSE /\ response' = response \o r.value
                 /\ pc' = "send"
                 /\ UNCHANGED fault
     ELSE /\ pc' = "finally"
          /\ UNCHANGED <<fault, response>>
  /\ UNCHANGED <<sock, nconn, open, request, data, nrecv, wire, nsent, earlier>>

\* if len(request) > 0: response = handle_request(request)
HandleRequest ==
  /\ pc = "handle"
  /\ IF Len(request) > 0
     THEN LET r == handle_request(request) IN
            IF r.raised
            THEN /\ fault' = r.exc
                 /\ pc' = "except"
                 /\ UNCHANGED response
            ELSE /\ response' = r.value
                 /\ pc' = "send"
                 /\ UNCHANGED fault
     ELSE /\ pc' = "finally"
          /\ UNCHANGED <<fault, response>>
  /\ UNCHANGED <<sock, nconn, open, request, data, nrecv, wire, nsent, earlier>>

\* The numbers of bytes of r that a sendall(r) that does not return may
\* have written: none, one, all but one, all.
PartialLengths(r) == {k \in 0..Len(r) : k <= 1 \/ k >= Len(r) - 1}

\* sendall followed by one more attempt to send the response
SendAll_retry ==
  /\ pc = "send"
  /\ wire' = wire \o response
  /\ nsent' = nsent + 1
  /\ pc' = IF nsent = 0 THEN "send" ELSE "finally"
  /\ UNCHANGED <<sock, nconn, open, request, data, nrecv, response, fault, earlier>>

\* conn.sendall(response) returns
SendAll ==
  /\ pc = "send"
  /\ wire' = wire \o response
  /\ nsent' = nsent + 1
  /\ pc' = "finally"
  /\ UNCHANGED <<sock, nconn, open, request, data, nrecv, response, fault, earlier>>

\* conn.sendall(response) raises: how much was sent is not known
SendAllError ==
  /\ pc = "send"
  /\ \E k \in PartialLengths(response) : wire' = wire \o SubSeq(response, 1, k)
  /\ fault' = "OSError"
  /\ pc' = "except"
  /\ UNCHANGED <<sock, nconn, open, request, data, nrecv, response, nsent, earlier>>

\* KeyboardInterrupt inside the inner try body: the bare except catches it
Interrupt ==
  /\ pc \in {"recv", "handle", "send"}
  /\ IF pc = "send"
     THEN \E k \in PartialLengths(response) : wire' = wire \o SubSeq(response, 1, k)
     ELSE UNCHANGED wire
  /\ fault' = "KeyboardInterrupt"
  /\ pc' = "except"
  /\ UNCHANGED <<sock, nconn, open, request, data, nrecv, response, nsent, earlier>>

\* an except clause that answers the client with an error response
Except_respond ==
  /\ pc = "except"
  /\ wire' = wire \o response_not_found
  /\ pc' = "finally"
  /\ UNCHANGED <<sock, nconn, open, request, data, nrecv, response, nsent, fault, earlier>>

\* the except clause without a finally clause after it: back to accept
Except_skip ==
  /\ pc = "except"
  /\ pc' = "accept"
  /\ UNCHANGED <<sock, nconn, open, request, data, nrecv, response, wire, nsent, fault, earlier>>

\* no inner except clause: the failure reaches the outer bare except
Except_escape ==
  /\ pc = "except"
  /\ open' = open \ {nconn}
  /\ pc' = "crashed"
  /\ UNCHANGED <<sock, nconn, request, data, nrecv, response, wire, nsent, fault, earlier>>

\* except: traceback.print_exc()
Except ==
  /\ pc = "except"
  /\ pc' = "finally"
  /\ UNCHANGED <<sock, nconn, open, request, data, nrecv, response, wire, nsent, fault, earlier>>

\* a finally clause that closes the listening socket instead of conn
Finally_closesock ==
  /\ pc = "finally"
  /\ sock' = "closed"
  /\ pc' = "accept"
  /\ UNCHANGED <<nconn, open, request, data, nrecv, response, wire, nsent, fault, earlier>>

\* a finally clause that only logs
Finally_noclose ==
  /\ pc = "finally"
  /\ pc' = "accept"
  /\ UNCHANGED <<sock, nconn, open, request, data, nrecv, response, wire, nsent, fault, earlier>>

\* finally: conn.close(); back to the head of the accept loop
Finally ==
  /\ pc = "finally"
  /\ open' = open \ {nconn}
  /\ pc' = "accept"
  /\ UNCHANGED <<sock, nconn, request, data, nrecv, response, wire, nsent, fault, earlier>>

\* Finally, remembering what the connection was sent
FinallyRecord ==
  /\ pc = "finally"
  /\ open' = open \ {nconn}
  /\ pc' = "accept"
  /\ earlier' = IF nsent = 1
                THEN [served |-> TRUE, request |-> request, wire |-> wire]
                ELSE earlier
  /\ UNCHANGED <<sock, nconn, request, data, nrecv, response, wire, nsent, fault>>

Next ==
  \/ Accept
  \/ AcceptInterrupt
  \/ AcceptError
  \/ \E chunk \in Chunks : Recv(chunk)
  \/ RecvError
  \/ HandleRequest
  \/ SendAll
  \/ SendAllError
  \/ Interrupt
  \/ Except
  \/ Finally

Spec == Init /\ [][Next]_vars

\* GET requests that arrive whole
GetRequests ==
  { <<"G", "E", "T", " ">> \o p \o Version \o CRLF : p \in Paths }

\* The server receiving whole GET requests on successive connections; what
\* each served connection got is remembered in earlier.
NextTwice ==
  \/ Accept
  \/ AcceptInterrupt
  \/ AcceptError
  \/ \E chunk \in GetRequests : Recv(chunk)
  \/ RecvError
  \/ HandleRequest
  \/ SendAll
  \/ SendAllError
  \/ Interrupt
  \/ Except
  \/ FinallyRecord

SpecTwice == Init /\ [][NextTwice]_vars

TypeOK ==
  /\ pc \in {"accept", "recv", "handle", "send", "except", "finally", "stopped", "crashed"}
  /\ sock \in {"listening", "closed"}
  /\ nconn \in 0..MaxConns
  /\ open \subseteq 1..MaxConns
  /\ nrecv \in 0..(MaxChunks + 1)
  /\ nsent \in 0..1

(* ------------------------------ properties ----------------------------- *)

NotFound404 ==
  <<"H", "T", "T", "P", "/", "1", ".", "1", " ", "4", "0", "4", " ", "N", "o", "t", " ", "F", "o", "u", "n", "d", "\r", "\n">>

NotAllowed405 ==
  <<"H", "T", "T", "P", "/", "1", ".", "1", " ", "4", "0", "5", " ", "M", "e", "t", "h", "o", "d", " ", "N", "o", "t", " ", "A", "l", "l", "o", "w", "e", "d", "\r", "\n">>

Ok200Head ==
  <<"H", "T", "T", "P", "/", "1", ".", "1", " ", "2", "0", "0", " ", "O", "K", "\r", "\n", "C", "o", "n", "t", "e", "n", "t", "-", "T", "y", "p", "e", ":", " ">>

\* the space-separated tokens of the accumulated request
Tokens == Split(request, " ")
MethodToken == Tokens[1]
PathToken == Tokens[2]
QueryOf(path) == PathJoin(CurrentDir, WebrootName, DropFirst(path))

\* the read loop of the current connection has ended with its break
LoopStopped == nrecv > 0 /\ (data = <<>> \/ Contains(request, Terminator))

\* what a failure raised inside handle_request leaves in fault
HandlerFaults == {"NotImplementedError", "IndexError", "AttributeError", "NameError"}

\* a request with a method other than POST and a path
HasPath ==
  /\ Len(request) > 0
  /\ LET t == Tokens IN Len(t) >= 2 /\ t[1] # POST

\* the bytes of b between CRLF pairs; no name of FileSystem holds a CRLF
RECURSIVE LinesFrom(_, _, _)
LinesFrom(b, i, cur) ==
  IF i > Len(b) THEN <<cur>>
  ELSE IF i < Len(b) /\ b[i] = CR /\ b[i + 1] = LF
       THEN <<cur>> \o LinesFrom(b, i + 2, <<>>)
  ELSE LinesFrom(b, i + 1, Append(cur, b[i]))

Range(f) == {f[i] : i \in DOMAIN f}

\* C1: a non-empty request whose method token is exactly POST, whose read
\* loop has ended and whose handling met no socket failure or interrupt, has
\* had exactly the 405 response written to its connection when the
\* connection is about to be closed.
C1_PostGets405 ==
  (pc = "finally" /\ LoopStopped /\ Len(request) > 0 /\ MethodToken = POST
     /\ fault \notin {"OSError", "KeyboardInterrupt"})
  => (nsent = 1 /\ wire = NotAllowed405)

\* C2: for a request with a method other than POST whose path, joined onto
\* the document root, has no filesystem entry, handle_request raises nothing
\* and returns exactly the 404 bytes, and these are the bytes on the
\* connection once sendall has returned; they are sent whenever no socket
\* failure or interrupt occurs.
C2_Missing == HasPath /\ ~exists(QueryOf(PathToken))

C2_NotFound404 ==
  /\ fault \in HandlerFaults => ~C2_Missing
  /\ (pc = "send" /\ C2_Missing) => response = NotFound404
  /\ (nsent = 1 /\ C2_Missing) => wire = NotFound404
  /\ (pc = "finally" /\ fault = "" /\ nsent # 1 /\ LoopStopped) => ~C2_Missing

C2_Witness ==
  /\ pc = "finally" /\ C2_Missing /\ nsent = 1 /\ wire = NotFound404
  /\ PathToken = <<"/", "a", ".", "h", "t", "m", "l", "/">>

\* C3: for a request with a method other than POST whose path resolves to
\* an existing file with a guessable media type, the response is exactly
\* "HTTP/1.1 200 OK\r\nContent-Type: <media_type>\r\n\r\n" followed by the
\* bytes of the file and nothing else.
C3_File ==
  /\ HasPath
  /\ exists(QueryOf(PathToken))
  /\ ~isdir(QueryOf(PathToken))
  /\ guess_type(QueryOf(PathToken)) # None

C3_Expected ==
  Ok200Head \o encode(guess_type(QueryOf(PathToken))) \o <<CR, LF, CR, LF>>
    \o EntryAt(Resolve(QueryOf(PathToken)).value).content

C4_Dir == HasPath /\ isdir(QueryOf(PathToken))

C4_Head == Ok200Head \o <<"t", "e", "x", "t", "/", "p", "l", "a", "i", "n">>
             \o <<CR, LF, CR, LF>>

C4_Entries == EntryAt(Resolve(QueryOf(PathToken)).value).entries

C4_ListingOk(resp) ==
  /\ Len(resp) >= Len(C4_Head)
  /\ SubSeq(resp, 1, Len(C4_Head)) = C4_Head
  /\ LET body == SubSeq(resp, Len(C4_Head) + 1, Len(resp))
         names == IF body = <<>> THEN <<>> ELSE LinesFrom(body, 1, <<>>)
     IN /\ names = [i \in 1..Len(C4_Entries) |-> encode(C4_Entries[i])]
        /\ Range(names) = {encode(n) : n \in Range(C4_Entries)}
        /\ body = <<>> \/ body[Len(body)] # LF

C5_HandlerRaises ==
  \/ MethodToken = POST
  \/ Len(Tokens) < 2
  \/ /\ exists(QueryOf(PathToken))
     /\ ~isdir(QueryOf(PathToken))
     /\ guess_type(QueryOf(PathToken)) = None

C6_InterruptStops ==
  [][ /\ (fault = "KeyboardInterrupt" /\ pc = "accept") => nconn' = nconn
      /\ (fault' = "KeyboardInterrupt" /\ pc' = "accept") => sock' = "closed"
    ]_vars

C8_Sequential ==
  /\ [](Cardinality(open) <= 1)
  /\ [][nconn' # nconn => (pc = "accept" /\ open = {} /\ open' = {nconn'})]_vars

C8_Witness == nconn = 2 /\ open = {2} /\ pc = "send"

\* C9: a failure other than an interrupt in the handling of a connection
\* (recv error, undecodable bytes, a request line with fewer than two tokens,
\* a fault out of handle_request, a sendall error) is caught there: the next
\* steps close the connection and lead back to accept, with the listening
\* socket open.
C9_Contained ==
  [][ LET contained == fault' \notin {"", "KeyboardInterrupt"} IN
      /\ (contained /\ fault' # fault) => (pc' = "except" /\ sock' = "listening")
      /\ (contained /\ pc = "except") =>
           (pc' = "finally" /\ sock' = "listening" /\ open' = open)
      /\ (contained /\ pc = "finally") =>
           (pc' = "accept" /\ sock' = "listening" /\ open' = {})
    ]_vars

C9_Witness ==
  /\ pc = "accept" /\ sock = "listening" /\ open = {} /\ nconn = 1
  /\ fault = "IndexError"

\* C10: a pass of the read loop appends the decoded chunk to the request and
\* leaves the loop exactly when the accumulated text holds "\r\n\r\n" or the
\* chunk is empty; a connection whose request is empty after the loop gets
\* no response and is closed.
C10_ReadLoop ==
  /\ [][ (pc = "recv" /\ pc' \in {"recv", "handle"}) =>
           /\ request' = request \o decode(data').value
           /\ pc' = "handle" <=>
                (Contains(request', Terminator) \/ Len(data') = 0)
       ]_vars
  /\ [][ (pc = "handle" /\ Len(request) = 0) =>
           (pc' \in {"finally", "except"} /\ wire' = <<>> /\ nsent' = 0)
       ]_vars
  /\ []((pc \in {"finally", "accept"} /\ Len(request) = 0)
          => (wire = <<>> /\ nsent = 0))

\* the terminator arrived split over two chunks
C10_Witness ==
  /\ pc = "handle" /\ nrecv = 2
  /\ Contains(request, Terminator)
  /\ ~Contains(decode(data).value, Terminator)
  /\ ~Contains(SubSeq(request, 1, Len(request) - Len(decode(data).value)),
               Terminator)
  /\ Len(data) > 0

\* the positions of r where a blank line ("\r\n\r\n") starts
BlankAt(r) == {i \in 1..(Len(r) - 3) : SubSeq(r, i, i + 3) = Terminator}

StartsWith(r, p) == Len(r) >= Len(p) /\ SubSeq(r, 1, Len(p)) = p

\* r is a status line, header lines, one blank line and a body, joined with
\* CRLF: the head before the first blank line is a status line and header
\* lines of the form "Name: value"
Framed(r) ==
  /\ BlankAt(r) # {}
  /\ LET i == CHOOSE k \in BlankAt(r) : \A j \in BlankAt(r) : k <= j
         lines == LinesFrom(SubSeq(r, 1, i - 1), 1, <<>>)
         body == SubSeq(r, i + 4, Len(r))
     IN /\ StartsWith(lines[1], <<"H", "T", "T", "P", "/", "1", ".", "1", " ">>)
        /\ \A n \in 2..Len(lines) : Contains(lines[n], <<":", " ">>)
        /\ \A n \in 1..Len(lines) : lines[n] # <<>>
        /\ r = Join(CRLF, lines \o <<<<>>, body>>)

\* a status line ended by one CRLF and nothing else
StatusLineOnly(r) ==
  /\ StartsWith(r, <<"H", "T", "T", "P", "/", "1", ".", "1", " ">>)
  /\ BlankAt(r) = {}
  /\ LinesFrom(r, 1, <<>>) = <<SubSeq(r, 1, Len(r) - 2), <<>>>>

\* C11 as stated: every response that is built (200, 404, 405) is a status
\* line, header lines, exactly one blank separator line and a body, joined
\* with CRLF.
C11_Original == pc = "send" => Framed(response)

\* C11 amended: every 200 response is the status line, one Content-Type
\* header line, one blank separator line and the body, joined with CRLF; the
\* 404 and 405 responses are a status line ended by one CRLF, without header,
\* blank line or body.
C11_Amended ==
  /\ pc = "send" =>
       IF StartsWith(response, <<"H", "T", "T", "P", "/", "1", ".", "1", " ", "2", "0", "0", " ">>)
       THEN /\ Framed(response)
            /\ StartsWith(response, Ok200Head)
            /\ LET i == CHOOSE k \in BlankAt(response) :
                          \A j \in BlankAt(response) : k <= j
               IN Len(LinesFrom(SubSeq(response, 1, i - 1), 1, <<>>)) = 2
       ELSE response = NotFound404 /\ StatusLineOnly(response)
  /\ response_not_found = NotFound404
  /\ response_method_not_allowed = NotAllowed405
  /\ StatusLineOnly(response_method_not_allowed)

C11_Witness ==
  /\ pc = "send" /\ response = NotFound404
  /\ BlankAt(response) = {} /\ ~Framed(response)

AsGet == <<"G", "E", "T", " ">> \o Join(<<" ">>, Tail(Tokens))

C14_File ==
  /\ HasPath
  /\ exists(QueryOf(PathToken))
  /\ ~isdir(QueryOf(PathToken))
  /\ guess_type(QueryOf(PathToken)) = None

C14_NoResponse ==
  /\ (pc = "send" \/ wire # <<>> \/ nsent # 0) => ~C14_File
  /\ fault \in {"NameError", "NotImplementedError", "IndexError"} => ~C14_File
  /\ (pc \in {"except", "finally"} /\ LoopStopped
        /\ fault \notin {"OSError", "KeyboardInterrupt", "AttributeError"})
       => ~C14_File

\* the connection was closed with nothing sent
C14_Witness ==
  /\ pc = "accept" /\ open = {} /\ nconn = 1
  /\ C14_File /\ PathToken = <<"/", "r", "a", "w">>
  /\ fault = "AttributeError" /\ wire = <<>> /\ nsent = 0

\* C15: the listening socket is open whenever the server waits in accept or
\* handles a connection; the only step that closes it is the shutdown on an
\* interrupt in accept, and after it nothing is accepted any more.
C15_ListeningUntilShutdown ==
  /\ [](pc \in {"accept", "recv", "handle", "send", "except", "finally"}
          => sock = "listening")
  /\ [][sock' # sock =>
          (pc = "accept" /\ pc' = "stopped" /\ sock' = "closed" /\ open = {})]_vars
  /\ [][sock = "closed" => (nconn' = nconn /\ open' = open /\ pc' = "stopped")]_vars

C15_Witness ==
  /\ pc = "stopped" /\ sock = "closed" /\ nconn = 2 /\ open = {}
  /\ fault = "OSError"

\* C16: on one connection at most one response is sent; bytes are written to
\* it only by the sendall that follows a read loop that stopped with a
\* non-empty request, while the connection is open and before any failure
\* was caught; nothing is written while the request is read, in the except
\* or finally clause, or after the close.
C16_OneResponseInOrder ==
  /\ [](nsent <= 1)
  /\ [](pc = "recv" => (wire = <<>> /\ nsent = 0))
  /\ [](wire # <<>> =>
          /\ LoopStopped /\ Len(request) > 0
          /\ Len(wire) <= Len(response)
          /\ wire = SubSeq(response, 1, Len(wire)))
  /\ [](nsent = 1 => wire = response)
  /\ [][(wire' # wire \/ nsent' # nsent) =>
          \/ /\ pc = "send" /\ nconn \in open /\ fault = "" /\ nsent = 0
             /\ wire = <<>>
          \/ pc = "accept" /\ wire' = <<>> /\ nsent' = 0]_vars

C16_Witness ==
  /\ pc = "accept" /\ open = {} /\ nconn = 1
  /\ nsent = 1 /\ wire = response /\ nrecv = 2 /\ fault = ""

\* the read loop stopped on a zero-length read, with a non-empty request
\* that holds no header terminator
C17_Truncated ==
  /\ nrecv > 0 /\ data = <<>>
  /\ Len(request) > 0 /\ ~Contains(request, Terminator)

C17_Answered == HasPath /\ ~C14_File

====
